---- MODULE Spec2Model ----
(***************************************************************************)
(* Model of the markdown section chunker                                   *)
(* (src/src/chunker/markdown_section_chunker.py).                          *)
(*                                                                         *)
(* A Python str is a sequence of one-character strings, so that strip(),   *)
(* len(), concatenation and the regular expressions of the title           *)
(* extractor are computed and not assumed.  An Optional value is <<>>      *)
(* (None) or <<v>>.                                                        *)
(*                                                                         *)
(* split() is modelled step by step: the fold over the tokens (one step    *)
(* per token), the collapse loop (one step per iteration) and the          *)
(* recursion of _chunk_markdown_section (an explicit stack of call frames, *)
(* one step per call and per return).                                      *)
(*                                                                         *)
(* Fields that are not in the source and only record history:              *)
(*   section.id    position at which the section was pushed (1-based)      *)
(*   section.toks  indices of the content tokens folded into the section   *)
(*   chunk.sec     id of the section the chunk was emitted for             *)
(*   split_calls   the calls of _split_text: section id and returned list  *)
(***************************************************************************)
EXTENDS Integers, Sequences, FiniteSets, TLC

\* ---------------------------------------------------------------- bounds
MaxTokens == 3      \* tokens in the parsed document
MaxLevel == 3       \* heading levels 1..MaxLevel
MaxChunk == 3       \* max_chunk_size ranges over 1..MaxChunk

\* ---------------------------------------------------------------- strings
None == <<>>
Some(v) == <<v>>

NL == "\n"
Whitespace == {" ", NL}

Min(a, b) == IF a < b THEN a ELSE b

RECURSIVE lstrip(_)
lstrip(s) == IF s # <<>> /\ Head(s) \in Whitespace THEN lstrip(Tail(s)) ELSE s

RECURSIVE rstrip(_)
rstrip(s) ==
    IF s # <<>> /\ s[Len(s)] \in Whitespace THEN rstrip(SubSeq(s, 1, Len(s) - 1)) ELSE s

\* str.strip()
strip(s) == rstrip(lstrip(s))

\* str.replace(c, "") for a single character c
RECURSIVE remove_char(_, _)
remove_char(s, c) ==
    IF s = <<>> THEN <<>>
    ELSE (IF Head(s) = c THEN <<>> ELSE <<Head(s)>>) \o remove_char(Tail(s), c)

Digits == <<"0", "1", "2", "3", "4", "5", "6", "7", "8", "9">>

\* str(i) for i >= 0, as formatted by an f-string
RECURSIVE str(_)
str(i) == IF i < 10 THEN <<Digits[i + 1]>> ELSE str(i \div 10) \o <<Digits[(i % 10) + 1]>>

RECURSIVE repeat(_, _)
repeat(c, n) == IF n <= 0 THEN <<>> ELSE <<c>> \o repeat(c, n - 1)

\* concatenation of a sequence of strings
RECURSIVE concat(_)
concat(ss) == IF ss = <<>> THEN <<>> ELSE Head(ss) \o concat(Tail(ss))

\* s[from:] starts with the string p (from is 1-based)
starts_at(s, from, p) ==
    /\ from + Len(p) - 1 <= Len(s)
    /\ \A k \in 1..Len(p) : s[from + k - 1] = p[k]

SetMin(S) == CHOOSE x \in S : \A y \in S : x <= y

\* ---------------------------------------------------------------- titles
\* html.unescape, for the character references the model's headings use
Entities ==
    { [ref |-> <<"&", "#", "x", "2", "7", ";">>, char |-> "'"],
      [ref |-> <<"&", "l", "t", ";">>, char |-> "<"] }

RECURSIVE html_unescape(_)
html_unescape(s) ==
    IF s = <<>> THEN <<>>
    ELSE LET hit == {e \in Entities : starts_at(s, 1, e.ref)}
         IN  IF hit # {}
             THEN LET e == CHOOSE e \in hit : TRUE
                  IN  <<e.char>> \o html_unescape(SubSeq(s, Len(e.ref) + 1, Len(s)))
             ELSE <<Head(s)>> \o html_unescape(Tail(s))

\* mutant: the "#" characters are removed before the entities are unescaped
sanitize_title_HashFirst(heading) == strip(html_unescape(remove_char(heading, "#")))

\* src/chunker/utils.py: html.unescape(heading).replace("#", "").strip()
sanitize_title(heading) == strip(remove_char(html_unescape(heading), "#"))

RECURSIVE lstrip_hashes(_)
lstrip_hashes(s) == IF s # <<>> /\ Head(s) = "#" THEN lstrip_hashes(Tail(s)) ELSE s

\* re.match(r"^\s*#*\s*\[", s) and re.search(r"\)\s*$", s)
is_heading_a_link(s) ==
    LET v == lstrip(lstrip_hashes(lstrip(s)))
        t == rstrip(s)
    IN  /\ v # <<>> /\ Head(v) = "["
        /\ t # <<>> /\ t[Len(t)] = ")"

\* "." of a regular expression does not match a newline
NoNL(s, a, b) == \A k \in a..b : s[k] # NL

\* re.search(r"\[(.*?)\]\((.*?)\)", s): positions of ")" that close a link
\* whose "](" is at q, of "](" for a link opened at p, and of the openings
LinkClose(s, q) == {r \in (q + 2)..Len(s) : s[r] = ")" /\ NoNL(s, q + 2, r - 1)}
LinkMid(s, p) ==
    {q \in (p + 1)..(Len(s) - 1) :
        s[q] = "]" /\ s[q + 1] = "(" /\ NoNL(s, p + 1, q - 1) /\ LinkClose(s, q) # {}}
LinkOpen(s) == {p \in 1..Len(s) : s[p] = "[" /\ LinkMid(s, p) # {}}

\* mutant: the text of the link is returned as it is matched
_maybe_extract_title_url_from_heading_Raw(heading) ==
    IF ~is_heading_a_link(heading)
    THEN <<sanitize_title(heading), None>>
    ELSE IF LinkOpen(heading) = {}
         THEN <<sanitize_title(heading), None>>
         ELSE LET p == SetMin(LinkOpen(heading))
                  q == SetMin(LinkMid(heading, p))
                  r == SetMin(LinkClose(heading, q))
              IN  << SubSeq(heading, p + 1, q - 1),
                     Some(SubSeq(heading, q + 2, r - 1)) >>

\* returns <<title, title_url>>, title_url an Optional
_maybe_extract_title_url_from_heading(heading) ==
    IF ~is_heading_a_link(heading)
    THEN <<sanitize_title(heading), None>>
    ELSE IF LinkOpen(heading) = {}
         THEN <<sanitize_title(heading), None>>
         ELSE LET p == SetMin(LinkOpen(heading))
                  q == SetMin(LinkMid(heading, p))
                  r == SetMin(LinkClose(heading, q))
              IN  << sanitize_title(SubSeq(heading, p + 1, q - 1)),
                     Some(SubSeq(heading, q + 2, r - 1)) >>

\* ---------------------------------------------------------------- tokens
\* A block token of the mistune AST: its type, attrs.level (headings only)
\* and the markdown text of its children.
HeadingTexts == { <<>>, <<"A">>, <<"B">> }
ContentTexts == { <<"a">>, <<"b", "c">> }

HeadingTokens ==
    { [type |-> "heading", level |-> l, text |-> t] : l \in 1..MaxLevel, t \in HeadingTexts }
ContentTokens ==
    { [type |-> "paragraph", level |-> 0, text |-> t] : t \in ContentTexts }
        \cup { [type |-> "blank_line", level |-> 0, text |-> <<>>] }
Tokens == HeadingTokens \cup ContentTokens

\* MarkdownRenderer: a heading is "#" * level + " " + text + "\n\n", a
\* paragraph is text + "\n\n", a blank line is "".
_render_ast_token_to_markdown(token) ==
    CASE token.type = "heading" ->
            repeat("#", token.level) \o <<" ">> \o token.text \o <<NL, NL>>
      [] token.type = "paragraph" -> token.text \o <<NL, NL>>
      [] OTHER -> <<>>

RECURSIVE SeqsUpTo(_, _)
SeqsUpTo(S, n) ==
    IF n = 0 THEN {<<>>}
    ELSE LET shorter == SeqsUpTo(S, n - 1)
         IN  shorter \cup {Append(s, x) : s \in {t \in shorter : Len(t) = n - 1}, x \in S}

\* ---------------------------------------------------------------- state
VARIABLES
    content_ast,      \* the token list mistune returns for the input
    max_chunk_size,   \* BaseChunker.max_chunk_size
    pc,               \* "fold", "collapse", "chunk", "done"
    pos,              \* fold loop: index of the next token
    sections,         \* the flat list, then the forest
    index,            \* collapse loop index (0-based, as in the source)
    root,             \* split(): index of the next top-level section
    stack,            \* call frames of _chunk_markdown_section, innermost last
    chunks,           \* split(): the list it returns
    split_calls,      \* history of _split_text calls
    directory,        \* names of the *.pdf files under DirectoryPDFLoader.path
    docs,             \* RAGAgent._docs: document name -> markdown
    table,            \* InMemoryVectorStore._table: None or Some(rows)
    texts,            \* InMemoryVectorStore.texts
    raised,           \* exception raised by the last agent or store call, "" if none
    found,            \* Some(what search() returned) when the last call was a search
    converted,        \* history of converter.convert calls (document names)
    index_calls,      \* number of RAGAgent.index() calls made
    added,            \* history: texts given to add_texts since the store was
                      \* built or last reset, in calls with a non-empty text
    pdf_doc,          \* convert_pdf_pipelined: the pages of the PDF, each with the
                      \* layout boxes the predictor finds and the model's replies
    main_pc,          \* convert_pdf_pipelined: "start", "join_layout", "join_openai",
                      \* "returned"
    layout_pc,        \* layout_worker: "idle", "loop", "done", "raised"
    openai_pc,        \* openai_worker: "idle", "get", "blocks", "done"
    page_num,         \* layout_worker: the loop variable (0-based)
    layout_queue,     \* queue.Queue(): the items not yet taken, oldest first
    item,             \* openai_worker: None or Some(the item being processed)
    blocks,           \* openai_worker: the sorted boxes of the item
    block_texts,      \* openai_worker: the text per block
    future_to_block,  \* openai_worker: block indices of the futures not yet done
    page_results,     \* dict page number -> page text
    markdown,         \* None or Some(the string convert_pdf_pipelined returned)
    enqueued,         \* history: every item put in the queue, in order
    stores,           \* history: page numbers stored in page_results, in order
    completed         \* history: block indices of the current or last page's
                      \* futures in the order they completed

chunker_vars == <<content_ast, max_chunk_size, pc, pos, sections, index, root, stack,
                  chunks, split_calls>>

agent_vars == <<directory, docs, table, texts, raised, found, converted, index_calls,
                added>>

pipe_vars == <<pdf_doc, main_pc, layout_pc, openai_pc, page_num, layout_queue, item,
               blocks, block_texts, future_to_block, page_results, markdown, enqueued,
               stores, completed>>

vars == <<chunker_vars, agent_vars, pipe_vars>>

MarkdownSection(title, title_url, content, level, id, toks) ==
    [title |-> title, title_url |-> title_url, content |-> content,
     sub_sections |-> <<>>, level |-> level, id |-> id, toks |-> toks]

Chunk(content, original_content, original_title, root_title, sec) ==
    [content |-> content, original_content |-> original_content,
     original_title |-> original_title, root_title |-> root_title, sec |-> sec]

\* split() is entered with the parsed document and the configured size
SplitEntry(documents, sizes) ==
    /\ content_ast \in documents
    /\ max_chunk_size \in sizes
    /\ pc = "fold"
    /\ pos = 1
    /\ sections = <<>>
    /\ index = 0
    /\ root = 1
    /\ stack = <<>>
    /\ chunks = <<>>
    /\ split_calls = <<>>

\* RAGAgent.__init__ (rag_agent.py line 42) and InMemoryVectorStore.__init__
\* (in_memory.py lines 39-57) over a directory of PDF files
AgentEntry(directories) ==
    /\ directory \in directories
    /\ docs = <<>>
    /\ table = Some(<<>>)
    /\ texts = <<>>
    /\ raised = ""
    /\ found = None
    /\ converted = <<>>
    /\ index_calls = 0
    /\ added = <<>>

\* convert_pdf_pipelined (basic_surya_pipeline.py lines 141-157) on entry, for
\* a PDF of the given set
PipelineEntry(pdfs) ==
    /\ pdf_doc \in pdfs
    /\ main_pc = "start"
    /\ layout_pc = "idle"
    /\ openai_pc = "idle"
    /\ page_num = 0
    /\ layout_queue = <<>>
    /\ item = None
    /\ blocks = <<>>
    /\ block_texts = <<>>
    /\ future_to_block = {}
    /\ page_results = <<>>
    /\ markdown = None
    /\ enqueued = <<>>
    /\ stores = <<>>
    /\ completed = <<>>

Init ==
    /\ SplitEntry(SeqsUpTo(Tokens, MaxTokens), 1..MaxChunk)
    /\ AgentEntry({{}})
    /\ PipelineEntry({<<>>})

\* ---------------------------------------------------------------- fold
\* lines 59-71: a heading token pushes a new section
NewHeadingSection(token, id) ==
    LET heading == _render_ast_token_to_markdown(token)
        tu == _maybe_extract_title_url_from_heading(heading)
    IN  MarkdownSection(tu[1], tu[2], <<>>, token.level, id, <<>>)

\* mutant: the implicit section is given level 0
ImplicitSection_LevelZero(token_markdown, k) ==
    MarkdownSection(<<>>, None, token_markdown, 0, 1, <<k>>)

\* lines 82-88: the section for text before the first heading
ImplicitSection(token_markdown, k) ==
    MarkdownSection(<<>>, None, token_markdown, 1, 1, <<k>>)

\* mutant: the text replaces the content of the last section (= for +=)
AddContent_Replace(secs, token, k) ==
    LET token_markdown == strip(_render_ast_token_to_markdown(token))
    IN  IF Len(secs) > 0
        THEN LET last == secs[Len(secs)]
             IN  [secs EXCEPT ![Len(secs)] =
                    [last EXCEPT !.content = strip(token_markdown),
                                 !.toks = Append(last.toks, k)]]
        ELSE <<ImplicitSection(token_markdown, k)>>

\* mutant: the text is added to the first section (sections[0] for sections[-1])
AddContent_ToFirst(secs, token, k) ==
    LET token_markdown == strip(_render_ast_token_to_markdown(token))
    IN  IF Len(secs) > 0
        THEN LET first == secs[1]
             IN  [secs EXCEPT ![1] =
                    [first EXCEPT !.content = strip(first.content \o <<NL>> \o token_markdown),
                                  !.toks = Append(first.toks, k)]]
        ELSE <<ImplicitSection(token_markdown, k)>>

\* lines 75-89: any other token is added to the last section, or to a new
\* untitled level-1 section when there is none
AddContent(secs, token, k) ==
    LET token_markdown == strip(_render_ast_token_to_markdown(token))
    IN  IF Len(secs) > 0
        THEN LET last == secs[Len(secs)]
             IN  [secs EXCEPT ![Len(secs)] =
                    [last EXCEPT !.content = strip(last.content \o <<NL>> \o token_markdown),
                                 !.toks = Append(last.toks, k)]]
        ELSE <<ImplicitSection(token_markdown, k)>>

FoldHeading ==
    /\ pc = "fold"
    /\ pos <= Len(content_ast)
    /\ content_ast[pos].type = "heading"
    /\ sections' = Append(sections, NewHeadingSection(content_ast[pos], Len(sections) + 1))
    /\ pos' = pos + 1
    /\ UNCHANGED <<agent_vars, pipe_vars>>
    /\ UNCHANGED <<content_ast, max_chunk_size, pc, index, root, stack, chunks, split_calls>>

FoldContent ==
    /\ pc = "fold"
    /\ pos <= Len(content_ast)
    /\ content_ast[pos].type # "heading"
    /\ sections' = AddContent(sections, content_ast[pos], pos)
    /\ pos' = pos + 1
    /\ UNCHANGED <<agent_vars, pipe_vars>>
    /\ UNCHANGED <<content_ast, max_chunk_size, pc, index, root, stack, chunks, split_calls>>

\* ---------------------------------------------------------------- collapse
\* line 92
StartCollapse ==
    /\ pc = "fold"
    /\ pos > Len(content_ast)
    /\ index' = Len(sections) - 1
    /\ pc' = "collapse"
    /\ UNCHANGED <<agent_vars, pipe_vars>>
    /\ UNCHANGED <<content_ast, max_chunk_size, pos, sections, root, stack, chunks, split_calls>>

\* mutant: the removed section becomes the first sub-section
Nest_AtFront(secs, i) ==
    LET parent == secs[i]
        child == secs[i + 1]
    IN  SubSeq(secs, 1, i - 1)
            \o <<[parent EXCEPT !.sub_sections = <<child>> \o parent.sub_sections]>>
            \o SubSeq(secs, i + 2, Len(secs))

\* lines 96-97: sections[index] becomes the last sub-section of sections[index - 1]
Nest(secs, i) ==
    LET parent == secs[i]        \* Python sections[index - 1]
        child == secs[i + 1]     \* Python sections[index]
    IN  SubSeq(secs, 1, i - 1)
            \o <<[parent EXCEPT !.sub_sections = Append(parent.sub_sections, child)]>>
            \o SubSeq(secs, i + 2, Len(secs))

\* mutant: a section of equal level is nested too
Deeper_OrEqual(secs, i) == secs[i + 1].level >= secs[i].level

\* line 95: sections[index].level > sections[index - 1].level
Deeper(secs, i) == secs[i + 1].level > secs[i].level

\* mutant: the scan goes on to the left after a removal
ResetIndex_NoRescan(secs, i) == i - 1

\* line 98: the scan restarts at the new last index
ResetIndex(secs, i) == Len(secs) - 1

CollapseNest ==
    /\ pc = "collapse"
    /\ index > 0
    /\ Deeper(sections, index)
    /\ sections' = Nest(sections, index)
    /\ index' = ResetIndex(sections', index)
    /\ UNCHANGED <<agent_vars, pipe_vars>>
    /\ UNCHANGED <<content_ast, max_chunk_size, pc, pos, root, stack, chunks, split_calls>>

\* mutant: the scan index is not moved
StepLeft_Stay(i) == i

\* line 100: index -= 1
StepLeft(i) == i - 1

CollapseLeft ==
    /\ pc = "collapse"
    /\ index > 0
    /\ ~Deeper(sections, index)
    /\ index' = StepLeft(index)
    /\ UNCHANGED <<agent_vars, pipe_vars>>
    /\ UNCHANGED <<content_ast, max_chunk_size, pc, pos, sections, root, stack, chunks, split_calls>>

\* line 101 and line 30: the forest is returned to split()
CollapseReturn ==
    /\ pc = "collapse"
    /\ ~(index > 0)
    /\ pc' = "chunk"
    /\ UNCHANGED <<agent_vars, pipe_vars>>
    /\ UNCHANGED <<content_ast, max_chunk_size, pos, sections, index, root, stack, chunks, split_calls>>

\* ---------------------------------------------------------------- chunker
\* a str or None is truthy
Truthy(opt) == opt # None /\ Len(opt[1]) > 0

\* mutant: the prefix and " > " are always prepended
_create_chunk_heading_Always(heading_prefix, title) ==
    IF Truthy(heading_prefix)
    THEN heading_prefix[1] \o <<" ", ">", " ">> \o title
    ELSE title

\* lines 153-164
_create_chunk_heading(heading_prefix, title) ==
    IF Truthy(heading_prefix) /\ Len(title) > 0
    THEN heading_prefix[1] \o <<" ", ">", " ">> \o title
    ELSE IF Truthy(heading_prefix) THEN heading_prefix[1]
    ELSE IF Len(title) > 0 THEN title
    ELSE <<>>

\* lines 166-172
_create_root_heading(title) == IF Len(title) > 0 THEN title ELSE <<>>

\* lines 174-182: RecursiveCharacterTextSplitter with chunk_overlap = 0.  The
\* library is outside the repository; it is modelled by its contract: any
\* contiguous, non-overlapping division of text into non-empty pieces of at
\* most max_chars characters.  The set of lists it may return:
\* A negative chunk_size makes the constructor of the splitter raise
\* ValueError (chunk_overlap = 0 is larger than chunk_size): no list is
\* returned, the set is empty.
RECURSIVE _split_text(_, _)
_split_text(text, max_chars) ==
    IF max_chars < 0 THEN {}
    ELSE IF text = <<>> THEN {<<>>}
    ELSE UNION { { <<SubSeq(text, 1, k)>> \o rest :
                     rest \in _split_text(SubSeq(text, k + 1, Len(text)), max_chars) } :
                 k \in 1..Min(max_chars, Len(text)) }

PartLabel == <<" ", "P", "a", "r", "t", " ">>

\* lines 184-190
_format_split_title(heading, split) ==
    IF Len(heading) > 0 THEN heading \o PartLabel \o str(split) ELSE <<>>

\* lines 192-202; split is an Optional int
_format_section_with_heading(heading, content, split) ==
    IF Len(heading) > 0 /\ split # None /\ split[1] # 0
    THEN <<"#", " ">> \o _format_split_title(heading, split[1]) \o <<NL>> \o content
    ELSE IF Len(heading) > 0
    THEN <<"#", " ">> \o heading \o <<NL>> \o content
    ELSE content

\* mutant: the content is never taken to be too long
TooLong_Never(content, max_chars) == FALSE

\* line 226
TooLong(content, max_chars) == max_chars # 0 /\ Len(content) > max_chars

\* mutant: the pieces are labelled from 0
SplitChunks_FromZero(section, heading, heading_parent, splits) ==
    [i \in 1..Len(splits) |->
        Chunk(_format_section_with_heading(heading, splits[i], Some(i - 1)),
              splits[i],
              _format_split_title(section.title, i - 1),
              heading_parent,
              section.id)]

\* lines 230-245: one chunk per element of splits
SplitChunks(section, heading, heading_parent, splits) ==
    [i \in 1..Len(splits) |->
        Chunk(_format_section_with_heading(heading, splits[i], Some(i)),
              splits[i],
              _format_split_title(section.title, i),
              heading_parent,
              section.id)]

\* lines 247-253
WholeChunk(section, heading, heading_parent) ==
    Chunk(_format_section_with_heading(heading, section.content, None),
          section.content,
          _create_root_heading(section.title),
          heading_parent,
          section.id)

\* mutant: a section with no title and no content gets no chunk
OwnChunks_SkipEmpty(section, max_chars, heading, heading_parent, splits) ==
    IF TooLong(section.content, max_chars)
    THEN SplitChunks(section, heading, heading_parent, splits)
    ELSE IF section.title = <<>> /\ section.content = <<>> THEN <<>>
    ELSE <<WholeChunk(section, heading, heading_parent)>>

\* lines 226-253: the chunks of the section itself
OwnChunks(section, max_chars, heading, heading_parent, splits) ==
    IF TooLong(section.content, max_chars)
    THEN SplitChunks(section, heading, heading_parent, splits)
    ELSE <<WholeChunk(section, heading, heading_parent)>>

\* mutant: an empty heading_parent is taken for a missing one
HeadingParent_Falsy(heading_parent, title) ==
    IF ~Truthy(heading_parent) THEN _create_root_heading(title) ELSE heading_parent[1]

\* lines 218-219: heading_parent is an Optional str
HeadingParent(heading_parent, title) ==
    IF heading_parent = None THEN _create_root_heading(title) ELSE heading_parent[1]

\* lines 215-253: the state of a call of _chunk_markdown_section when it
\* reaches the loop over the sub-sections; splits is what _split_text
\* returned (unused when the content is not too long)
Frame(section, max_chars, heading_prefix, heading_parent, splits) ==
    LET heading == _create_chunk_heading(heading_prefix, section.title)
        parent == HeadingParent(heading_parent, section.title)
    IN  [section |-> section,
         heading |-> heading,
         heading_parent |-> parent,
         result |-> OwnChunks(section, max_chars, heading, parent, splits),
         children |-> <<>>,
         child |-> 1]

\* mutant: the new elements are inserted at the front
Extend_AtFront(list, tmp) == tmp \o list

\* list.extend (lines 34 and 262)
Extend(list, tmp) == list \o tmp

\* what _split_text may return in a call for this section
SplitsOf(section, max_chars) ==
    IF TooLong(section.content, max_chars)
    THEN _split_text(section.content, max_chars)
    ELSE {<<>>}

LogSplit(log, section, max_chars, splits) ==
    IF TooLong(section.content, max_chars)
    THEN Append(log, [sec |-> section.id, text |-> section.content, splits |-> splits])
    ELSE log

\* mutant: the children's chunks are placed before the section's own
Result_ChildrenFirst(frame) == frame.children \o frame.result

\* lines 264-266
Result(frame) == frame.result \o frame.children

\* mutant: the title of the previous top-level section is carried over as
\* the heading prefix of the next one
RootFrame_Carry(section, max_chars, splits) ==
    Frame(section, max_chars,
          IF chunks = <<>> THEN None ELSE Some(chunks[Len(chunks)].root_title),
          None, splits)

\* line 35: a top-level section is chunked with heading_prefix = None and
\* the default heading_parent = None
RootFrame(section, max_chars, splits) == Frame(section, max_chars, None, None, splits)

\* lines 33-36: split() calls _chunk_markdown_section(section, max_chunk_size, None)
SplitCall ==
    /\ pc = "chunk"
    /\ stack = <<>>
    /\ root <= Len(sections)
    /\ \E splits \in SplitsOf(sections[root], max_chunk_size) :
         /\ stack' = <<RootFrame(sections[root], max_chunk_size, splits)>>
         /\ split_calls' = LogSplit(split_calls, sections[root], max_chunk_size, splits)
    /\ UNCHANGED <<agent_vars, pipe_vars>>
    /\ UNCHANGED <<content_ast, max_chunk_size, pc, pos, sections, index, root, chunks>>

\* lines 257-260: the recursive call for the next sub-section
ChunkRecurse ==
    /\ pc = "chunk"
    /\ stack # <<>>
    /\ LET top == stack[Len(stack)]
       IN  /\ top.child <= Len(top.section.sub_sections)
           /\ LET sub_section == top.section.sub_sections[top.child]
              IN  \E splits \in SplitsOf(sub_section, max_chunk_size) :
                    /\ stack' = Append(stack,
                                   Frame(sub_section, max_chunk_size, Some(top.heading),
                                         Some(top.heading_parent), splits))
                    /\ split_calls' = LogSplit(split_calls, sub_section, max_chunk_size, splits)
    /\ UNCHANGED <<agent_vars, pipe_vars>>
    /\ UNCHANGED <<content_ast, max_chunk_size, pc, pos, sections, index, root, chunks>>

\* lines 262-266: a recursive call returns and the caller extends children
ChunkReturn ==
    /\ pc = "chunk"
    /\ Len(stack) > 1
    /\ LET top == stack[Len(stack)]
           caller == stack[Len(stack) - 1]
       IN  /\ top.child > Len(top.section.sub_sections)
           /\ stack' = Append(SubSeq(stack, 1, Len(stack) - 2),
                              [caller EXCEPT !.children = Extend(caller.children, Result(top)),
                                             !.child = caller.child + 1])
    /\ UNCHANGED <<agent_vars, pipe_vars>>
    /\ UNCHANGED <<content_ast, max_chunk_size, pc, pos, sections, index, root, chunks,
                   split_calls>>

\* lines 34-36: the outermost call returns and split() extends chunks
SplitExtend ==
    /\ pc = "chunk"
    /\ Len(stack) = 1
    /\ stack[1].child > Len(stack[1].section.sub_sections)
    /\ chunks' = Extend(chunks, Result(stack[1]))
    /\ stack' = <<>>
    /\ root' = root + 1
    /\ UNCHANGED <<agent_vars, pipe_vars>>
    /\ UNCHANGED <<content_ast, max_chunk_size, pc, pos, sections, index, split_calls>>

\* line 38
SplitReturn ==
    /\ pc = "chunk"
    /\ stack = <<>>
    /\ root > Len(sections)
    /\ pc' = "done"
    /\ UNCHANGED <<agent_vars, pipe_vars>>
    /\ UNCHANGED <<content_ast, max_chunk_size, pos, sections, index, root, stack, chunks,
                   split_calls>>

\* the section the next call of _chunk_markdown_section is made for, if any
PendingCall ==
    IF stack = <<>>
    THEN IF root <= Len(sections) THEN Some(sections[root]) ELSE None
    ELSE LET top == stack[Len(stack)]
         IN  IF top.child <= Len(top.section.sub_sections)
             THEN Some(top.section.sub_sections[top.child])
             ELSE None

\* lines 226-228: _split_text raises and the exception leaves split()
SplitRaise ==
    /\ pc = "chunk"
    /\ PendingCall # None
    /\ TooLong(PendingCall[1].content, max_chunk_size)
    /\ _split_text(PendingCall[1].content, max_chunk_size) = {}
    /\ pc' = "raised"
    /\ raised' = "ValueError"
    /\ UNCHANGED <<directory, docs, table, texts, found, converted, index_calls, added>>
    /\ UNCHANGED pipe_vars
    /\ UNCHANGED <<content_ast, max_chunk_size, pos, sections, index, root, stack, chunks,
                   split_calls>>

Next ==
    \/ FoldHeading
    \/ FoldContent
    \/ StartCollapse
    \/ CollapseNest
    \/ CollapseLeft
    \/ CollapseReturn
    \/ SplitCall
    \/ ChunkRecurse
    \/ ChunkReturn
    \/ SplitExtend
    \/ SplitReturn

Spec == Init /\ [][Next]_vars

TypeOK == pc \in {"fold", "collapse", "chunk", "done", "raised"}

\* ---------------------------------------------------------------- the forest
\* the sections of a subtree, and of a list of subtrees
RECURSIVE Subtree(_)
Subtree(sec) ==
    {sec} \cup UNION {Subtree(sec.sub_sections[k]) : k \in 1..Len(sec.sub_sections)}

Forest(secs) == UNION {Subtree(secs[k]) : k \in 1..Len(secs)}

Ids(S) == {sec.id : sec \in S}

\* ids of the proper descendants of a section
Descendants(sec) == Ids(Subtree(sec)) \ {sec.id}

\* indices of the chunks emitted for the sections whose id is in I
ChunksOf(I) == {i \in 1..Len(chunks) : chunks[i].sec \in I}

\* every index of X is smaller than every index of Y
Before(X, Y) == \A i \in X, j \in Y : i < j

\* all pairs <<S, T>> of a list with S before T in the list
SiblingPairs(secs) ==
    UNION {{<<secs[i], secs[j]>> : j \in (i + 1)..Len(secs)} : i \in 1..Len(secs)}

Done == pc = "done"

\* ---------------------------------------------------------------- claims
\* C1: when split() has returned, for every section A of the forest and every
\* proper descendant B of A, every chunk emitted for A itself (its single
\* chunk or all its "Part i" chunks) has a smaller index in the returned
\* list than every chunk emitted for B.
C1_AncestorBeforeDescendant ==
    Done =>
        \A A \in Forest(sections) :
            \A b \in Descendants(A) : Before(ChunksOf({A.id}), ChunksOf({b}))

\* C1 witness: a section split into several "Part i" chunks has a descendant
\* with a chunk in the returned list.
C1_Witness ==
    /\ Done
    /\ \E A \in Forest(sections) :
         /\ Cardinality(ChunksOf({A.id})) >= 2
         /\ \E b \in Descendants(A) : ChunksOf({b}) # {}

\* C2: when split() has returned, for two sections S before T in the same
\* sub_sections list, or both top-level with S before T, every chunk of the
\* subtree of S precedes every chunk of the subtree of T, and the chunks of
\* the sub-sections come after the parent's own chunks.
C2_SiblingsInDocumentOrder ==
    Done =>
        /\ \A pair \in SiblingPairs(sections) :
             Before(ChunksOf(Ids(Subtree(pair[1]))), ChunksOf(Ids(Subtree(pair[2]))))
        /\ \A P \in Forest(sections) :
             /\ \A pair \in SiblingPairs(P.sub_sections) :
                  Before(ChunksOf(Ids(Subtree(pair[1]))), ChunksOf(Ids(Subtree(pair[2]))))
             /\ \A k \in 1..Len(P.sub_sections) :
                  Before(ChunksOf({P.id}), ChunksOf(Ids(Subtree(P.sub_sections[k]))))

\* C2 witness: a section with two sub-sections, both with chunks in the
\* returned list.
C2_Witness ==
    /\ Done
    /\ \E P \in Forest(sections) :
         /\ Len(P.sub_sections) >= 2
         /\ \A k \in 1..2 : ChunksOf({P.sub_sections[k].id}) # {}

\* ---------------------------------------------------------------- texts
\* the text a token contributes: its rendering, trimmed
TokenText(k) == strip(_render_ast_token_to_markdown(content_ast[k]))

ContentTokenIdx == {k \in 1..Len(content_ast) : content_ast[k].type # "heading"}

\* "\n".join of the non-empty strings of a list
RECURSIVE JoinNonEmpty(_, _)
JoinNonEmpty(ss, sep) ==
    IF ss = <<>> THEN <<>>
    ELSE LET rest == JoinNonEmpty(Tail(ss), sep)
         IN  IF Head(ss) = <<>> THEN rest
             ELSE IF rest = <<>> THEN Head(ss)
             ELSE Head(ss) \o sep \o rest

\* The non-heading text of a token list: the trimmed texts of its content
\* tokens in document order, each once; two texts that follow the same
\* heading are separated by one newline, nothing separates the text before a
\* heading from the text after it.  fresh: no text yet since the last heading.
RECURSIVE NonHeadingText(_, _)
NonHeadingText(toks, fresh) ==
    IF toks = <<>> THEN <<>>
    ELSE LET t == Head(toks)
             text == strip(_render_ast_token_to_markdown(t))
         IN  IF t.type = "heading" THEN NonHeadingText(Tail(toks), TRUE)
             ELSE IF text = <<>> THEN NonHeadingText(Tail(toks), fresh)
             ELSE (IF fresh THEN <<>> ELSE <<NL>>) \o text \o NonHeadingText(Tail(toks), FALSE)

OriginalContents(cs) == [i \in 1..Len(cs) |-> cs[i].original_content]

\* the chunks emitted for one section, in emission order
SectionChunks(id) == SelectSeq(chunks, LAMBDA c : c.sec = id)

\* C3: when split() has returned, the concatenation of original_content over
\* the returned chunks, in emission order, is the text of the non-heading
\* tokens in document order, each once, up to the trimming of each token text
\* and the newline that joins two texts of one section (the Text Splitter
\* returning a contiguous, non-overlapping division of the text it is given).
C3_Reassembly ==
    Done => concat(OriginalContents(chunks)) = NonHeadingText(content_ast, TRUE)

\* C3 witness: text before the first heading and text after it, the content
\* of some section divided into "Part" chunks.
C3_Witness ==
    /\ Done
    /\ split_calls # <<>>
    /\ \E j, h, k \in 1..Len(content_ast) :
         /\ j < h /\ h < k
         /\ content_ast[h].type = "heading"
         /\ TokenText(j) # <<>> /\ content_ast[j].type # "heading"
         /\ TokenText(k) # <<>> /\ content_ast[k].type # "heading"

\* C4: ownership of content tokens
HeadingsBefore(k) == {h \in 1..(k - 1) : content_ast[h].type = "heading"}

HasImplicitRoot == content_ast # <<>> /\ content_ast[1].type # "heading"

\* the id of the section pushed for the heading token h
PushedId(h) == Cardinality(HeadingsBefore(h)) + 1 + (IF HasImplicitRoot THEN 1 ELSE 0)

SetMax(S) == CHOOSE x \in S : \A y \in S : x >= y

\* the section a content token belongs to: the one of the nearest preceding
\* heading, or the implicit root (id 1)
OwnerId(k) == IF HeadingsBefore(k) = {} THEN 1 ELSE PushedId(SetMax(HeadingsBefore(k)))

Occurrences(seq, x) == Cardinality({i \in 1..Len(seq) : seq[i] = x})

TokenTexts(toks) == [i \in 1..Len(toks) |-> TokenText(toks[i])]

\* C4: every non-heading token already folded is recorded in exactly one
\* section, once: the section pushed for the nearest preceding heading, or the
\* untitled level-1 section when no heading precedes it.  That section is in
\* the forest during and after the collapse, its content is the newline-join
\* of the texts of its tokens, and when split() has returned the
\* original_content of its chunks concatenates to that content.
C4_NoSilentDataLoss ==
    \A k \in ContentTokenIdx :
        k < pos =>
            /\ \E s \in Forest(sections) :
                 /\ s.id = OwnerId(k)
                 /\ Occurrences(s.toks, k) = 1
                 /\ IF HeadingsBefore(k) = {}
                    THEN s.title = <<>> /\ s.level = 1
                    ELSE s.level = content_ast[SetMax(HeadingsBefore(k))].level
                 /\ s.content = JoinNonEmpty(TokenTexts(s.toks), <<NL>>)
                 /\ Done => concat(OriginalContents(SectionChunks(s.id))) = s.content
            /\ \A t \in Forest(sections) : t.id # OwnerId(k) => Occurrences(t.toks, k) = 0
            /\ Cardinality({t \in Forest(sections) : t.id = OwnerId(k)}) = 1

\* C4 witness: split() has returned for a document in which a nested section
\* (one the collapse moved under another) holds the text of a content token.
C4_Witness ==
    /\ Done
    /\ \E P \in Forest(sections) :
         \E k \in 1..Len(P.sub_sections) :
             /\ Len(P.sub_sections[k].toks) >= 1
             /\ P.sub_sections[k].content # <<>>

\* C5, as claimed: when split() has returned with max_chunk_size = N >= 1,
\* the length of chunk.content, the synthesized "# heading" line included, is
\* at most N for every returned chunk (every piece of the Text Splitter has
\* at most N characters).
C5_ContentWithinMaxChunkSize ==
    (Done /\ max_chunk_size >= 1) =>
        \A i \in 1..Len(chunks) : Len(chunks[i].content) <= max_chunk_size

\* ---------------------------------------------------------------- paths
\* the sections from sec down to the section with the given id (<<>> when
\* the id is not in the subtree of sec)
RECURSIVE PathIn(_, _)
PathIn(sec, id) ==
    IF sec.id = id THEN <<sec>>
    ELSE LET hits == {k \in 1..Len(sec.sub_sections) :
                        id \in Ids(Subtree(sec.sub_sections[k]))}
         IN  IF hits = {} THEN <<>>
             ELSE <<sec>> \o PathIn(sec.sub_sections[CHOOSE k \in hits : TRUE], id)

\* the path from the top-level section to the section with the given id
RootPath(id) ==
    LET r == CHOOSE k \in 1..Len(sections) : id \in Ids(Subtree(sections[k]))
    IN  PathIn(sections[r], id)

SectionById(id) == CHOOSE sec \in Forest(sections) : sec.id = id

Titles(path) == [k \in 1..Len(path) |-> path[k].title]

\* the " > "-join of the non-empty titles from the root to the section
PathHeading(id) == JoinNonEmpty(Titles(RootPath(id)), <<" ", ">", " ">>)

\* the position of chunk i among the chunks of its section (1-based)
PartIndex(i) == Cardinality({j \in 1..i : chunks[j].sec = chunks[i].sec})

\* the heading line of chunk i for the heading h: "# h\n", or "# h Part n\n"
\* when the content of its section was split, or nothing when h is empty
HeadingLine(i, h) ==
    IF h = <<>> THEN <<>>
    ELSE <<"#", " ">> \o h
           \o (IF TooLong(SectionById(chunks[i].sec).content, max_chunk_size)
               THEN PartLabel \o str(PartIndex(i)) ELSE <<>>)
           \o <<NL>>

\* C6: in every call of _chunk_markdown_section the heading is the " > "-join,
\* from the root down, of the non-empty titles on the path from the top-level
\* section to the section of the call (empty when all are empty), and when
\* split() has returned the content of every chunk is the line for that
\* heading followed by its original_content.
C6_HeadingComposition ==
    /\ \A f \in 1..Len(stack) : stack[f].heading = PathHeading(stack[f].section.id)
    /\ Done =>
         \A i \in 1..Len(chunks) :
             chunks[i].content =
                 HeadingLine(i, PathHeading(chunks[i].sec)) \o chunks[i].original_content

\* C6 witness: three nested sections titled A > B > A; the chunk of the
\* deepest one starts with "# A > B > A".
C6_Witness ==
    /\ Done
    /\ Len(chunks) = 3
    /\ Len(RootPath(chunks[3].sec)) = 3
    /\ chunks[3].content = <<"#", " ", "A", " ", ">", " ", "B", " ", ">", " ", "A", NL>>

\* C7: every call of _chunk_markdown_section below the top-level section R,
\* and every chunk emitted for a section of the subtree of R ("Part i" chunks
\* included), carries root_title = R.title (empty when R.title is empty).
C7_RootTitleFixed ==
    /\ \A f \in 1..Len(stack) :
         stack[f].heading_parent = RootPath(stack[f].section.id)[1].title
    /\ \A i \in 1..Len(chunks) :
         chunks[i].root_title = RootPath(chunks[i].sec)[1].title

\* C7 witness: a returned chunk of a titled sub-section whose top-level
\* section has another title, and a returned "Part" chunk.
C7_Witness ==
    /\ Done
    /\ split_calls # <<>>
    /\ \E i \in 1..Len(chunks) :
         /\ Len(RootPath(chunks[i].sec)) >= 2
         /\ chunks[i].original_title # <<>>
         /\ chunks[i].root_title # <<>>
         /\ chunks[i].root_title # SectionById(chunks[i].sec).title

\* C8: when split() has returned, every section whose content is longer than
\* max_chunk_size was given to the Text Splitter once, and its chunks are, in
\* consecutive positions and in split order, one per returned piece: the i-th
\* (from 1) has original_content = piece i, original_title = title " Part " i
\* (empty when the title is empty) and content = "# " heading " Part " i,
\* a newline and piece i (the piece alone when the heading is empty).
C8_SplitLabelling ==
    Done =>
        \A s \in Forest(sections) :
            TooLong(s.content, max_chunk_size) =>
                LET calls == SelectSeq(split_calls, LAMBDA e : e.sec = s.id)
                    cs == SectionChunks(s.id)
                    h == PathHeading(s.id)
                    at == ChunksOf({s.id})
                IN  /\ Len(calls) = 1
                    /\ calls[1].text = s.content
                    /\ Len(cs) = Len(calls[1].splits)
                    /\ at = SetMin(at)..SetMax(at)
                    /\ \A i \in 1..Len(cs) :
                         /\ cs[i].original_content = calls[1].splits[i]
                         /\ cs[i].original_title =
                              (IF s.title = <<>> THEN <<>>
                               ELSE s.title \o <<" ", "P", "a", "r", "t", " ">> \o str(i))
                         /\ cs[i].content =
                              (IF h = <<>> THEN calls[1].splits[i]
                               ELSE <<"#", " ">> \o h \o <<" ", "P", "a", "r", "t", " ">>
                                      \o str(i) \o <<NL>> \o calls[1].splits[i])

\* C8 witness: a section titled A split into three pieces, returned as the
\* chunks "A Part 1", "A Part 2", "A Part 3".
C8_Witness ==
    /\ Done
    /\ Len(chunks) = 3
    /\ chunks[1].original_title = <<"A", " ", "P", "a", "r", "t", " ", "1">>
    /\ chunks[2].original_title = <<"A", " ", "P", "a", "r", "t", " ", "2">>
    /\ chunks[3].original_title = <<"A", " ", "P", "a", "r", "t", " ", "3">>
    /\ chunks[3].content = <<"#", " ", "A", " ", "P", "a", "r", "t", " ", "3", NL>>
                              \o chunks[3].original_content

LeadingContent == {k \in ContentTokenIdx : HeadingsBefore(k) = {}}

\* C10: when tokens precede the first heading, the builder makes one section
\* for them (id 1): untitled, level 1, top-level, holding their text; its
\* chunks have original_title = "" and content = original_content.  A level-1
\* heading that follows becomes the next top-level section, and its chunk
\* heading is its own title.
C10_OrphanContent ==
    (Done /\ HasImplicitRoot) =>
        /\ sections[1].id = 1 /\ sections[1].title = <<>> /\ sections[1].level = 1
        /\ sections[1].content =
              JoinNonEmpty([k \in 1..Cardinality(LeadingContent) |-> TokenText(k)], <<NL>>)
        /\ Cardinality(Forest(sections)) = 1 + Cardinality(DOMAIN content_ast \ ContentTokenIdx)
        /\ SectionChunks(1) # <<>>
        /\ \A i \in ChunksOf({1}) :
             chunks[i].original_title = <<>> /\ chunks[i].content = chunks[i].original_content
        /\ LET h == Cardinality(LeadingContent) + 1
           IN  (h <= Len(content_ast) /\ content_ast[h].level = 1) =>
                 /\ Len(sections) >= 2
                 /\ sections[2].id = 2
                 /\ sections[2].title = content_ast[h].text
                 /\ \A i \in ChunksOf({2}) :
                      /\ chunks[i].root_title = content_ast[h].text
                      /\ chunks[i].content =
                           HeadingLine(i, content_ast[h].text) \o chunks[i].original_content

\* C10 witness: text, then "# A", then text: the first chunk is the text with
\* no title, the second is "# A" and its body.
C10_Witness ==
    /\ Done
    /\ Len(content_ast) = 3
    /\ Len(chunks) = 2
    /\ chunks[1].original_title = <<>>
    /\ chunks[1].content = <<"b", "c">>
    /\ chunks[2].original_title = <<"A">>
    /\ chunks[2].content = <<"#", " ", "A", NL, "a">>

\* ---------------------------------------------------------------- the section builder alone
MaxSections == 6    \* heading tokens of a document of headings only

\* documents of headings only, every level sequence up to MaxSections
HeadingDocuments == SeqsUpTo({t \in HeadingTokens : t.text = <<"A">>}, MaxSections)

\* _parse_markdown_into_sections on a document of headings, up to its return
InitBuilder ==
    /\ SplitEntry(HeadingDocuments, {MaxChunk})
    /\ AgentEntry({{}})
    /\ PipelineEntry({<<>>})

NextBuilder ==
    \/ FoldHeading
    \/ StartCollapse
    \/ CollapseNest
    \/ CollapseLeft
    \/ CollapseReturn

SpecBuilder == InitBuilder /\ [][NextBuilder]_vars

\* _parse_markdown_into_sections has returned its forest
Built == pc = "chunk"

Levels(tokens) == [k \in 1..Len(tokens) |-> tokens[k].level]

\* C11: for the heading-level sequence (1, 3, 2) the builder returns exactly
\* one root, the level-1 section; its sub_sections are the level-3 section
\* and then the level-2 section, and neither of the two has a sub-section.
C11_PinnedNesting ==
    (Built /\ Levels(content_ast) = <<1, 3, 2>>) =>
        /\ Len(sections) = 1
        /\ sections[1].id = 1
        /\ sections[1].level = 1
        /\ Len(sections[1].sub_sections) = 2
        /\ sections[1].sub_sections[1].id = 2
        /\ sections[1].sub_sections[1].level = 3
        /\ sections[1].sub_sections[1].sub_sections = <<>>
        /\ sections[1].sub_sections[2].id = 3
        /\ sections[1].sub_sections[2].level = 2
        /\ sections[1].sub_sections[2].sub_sections = <<>>

C11_Witness ==
    /\ Built
    /\ Levels(content_ast) = <<1, 3, 2>>
    /\ Len(sections) = 1

\* C12: in the forest the builder returns, every sub-section's level is
\* strictly greater than the level of the section that holds it, for every
\* heading-level sequence, jumps included.
C12_ChildDeeperThanParent ==
    Built =>
        \A P \in Forest(sections) : \A k \in 1..Len(P.sub_sections) :
            P.sub_sections[k].level > P.level

\* a child nested across a jump of more than one level
C12_Witness ==
    /\ Built
    /\ \E P \in Forest(sections) : \E k \in 1..Len(P.sub_sections) :
          P.sub_sections[k].level > P.level + 1

\* --- the left-to-right stack algorithm of the specification
\* the flat list the fold has built from the first n tokens
RECURSIVE Folded(_)
Folded(n) ==
    IF n = 0 THEN <<>>
    ELSE LET prev == Folded(n - 1)
             token == content_ast[n]
         IN  IF token.type = "heading"
             THEN Append(prev, NewHeadingSection(token, Len(prev) + 1))
             ELSE AddContent(prev, token, n)

\* pop the stack (a list of indices into flat) while the top's level >= level
RECURSIVE Popped(_, _, _)
Popped(flat, stk, level) ==
    IF stk # <<>> /\ flat[stk[Len(stk)]].level >= level
    THEN Popped(flat, SubSeq(stk, 1, Len(stk) - 1), level)
    ELSE stk

\* the stack after sections 1..n have been processed
RECURSIVE StackAfter(_, _)
StackAfter(flat, n) ==
    IF n = 0 THEN <<>>
    ELSE Append(Popped(flat, StackAfter(flat, n - 1), flat[n].level), n)

\* the section that section n is attached to, 0 when n becomes a root
StackParent(flat, n) ==
    LET stk == Popped(flat, StackAfter(flat, n - 1), flat[n].level)
    IN  IF stk = <<>> THEN 0 ELSE stk[Len(stk)]

\* the sections attached to p, in the order they were attached
StackChildren(flat, p) ==
    SelectSeq([k \in 1..Len(flat) |-> k], LAMBDA c : StackParent(flat, c) = p)

RECURSIVE StackTree(_, _)
StackTree(flat, n) ==
    LET cs == StackChildren(flat, n)
    IN  [flat[n] EXCEPT !.sub_sections = [j \in 1..Len(cs) |-> StackTree(flat, cs[j])]]

StackForest(flat) ==
    LET rs == StackChildren(flat, 0)
    IN  [j \in 1..Len(rs) |-> StackTree(flat, rs[j])]

\* C20: for every sequence of sections with positive levels, the forest the
\* right-to-left delete-and-rescan collapse returns is the forest of the
\* left-to-right stack algorithm: the same roots in the same order and the
\* same sub_sections lists in the same order at every node.
C20_StackEquivalence ==
    Built => sections = StackForest(Folded(Len(content_ast)))

\* a forest with a node of two children one of which has a child of its own,
\* built from a level sequence on which the stack algorithm pops
C20_Witness ==
    /\ Built
    /\ \E P \in Forest(sections) :
          /\ Len(P.sub_sections) >= 2
          /\ \E k \in 1..Len(P.sub_sections) : P.sub_sections[k].sub_sections # <<>>
    /\ \E n \in 2..Len(content_ast) : content_ast[n].level < content_ast[n - 1].level

\* ---------------------------------------------------------------- configuration
\* BaseChunker.__init__ (base.py lines 12-16) stores max_chunk_size as it is
\* given: a chunker with a size of zero or below is constructed and split()
\* is entered with it.
InitConfig ==
    /\ SplitEntry(SeqsUpTo(Tokens, MaxTokens - 1), (0 - MaxChunk)..0)
    /\ AgentEntry({{}})
    /\ PipelineEntry({<<>>})

NextConfig ==
    \/ Next
    \/ SplitRaise

SpecConfig == InitConfig /\ [][NextConfig]_vars

\* C13: a chunker configured with max_chunk_size of 0 or below never returns
\* a chunk list from split(), whatever the input: the configuration is
\* rejected with an error.
C13_NonPositiveSizeRejected ==
    max_chunk_size <= 0 => pc # "done"

\* ---------------------------------------------------------------- heading levels
\* The level of a heading token is read from the parser's output without a
\* check (line 70).  Documents of a parser that does not keep to levels >= 1:
AnyLevelHeadings ==
    { [type |-> "heading", level |-> l, text |-> <<"A">>] : l \in (0 - 1)..MaxLevel }

InitLevels ==
    /\ SplitEntry(SeqsUpTo(AnyLevelHeadings, MaxTokens), {MaxChunk})
    /\ AgentEntry({{}})
    /\ PipelineEntry({<<>>})

SpecLevels == InitLevels /\ [][NextBuilder]_vars

MaxBody == 5    \* pieces in the text of the heading under test

\* the pieces a heading text is built from: link punctuation, a "#", a
\* letter, a blank and a character reference
Atoms ==
    { <<"[">>, <<"]">>, <<"(">>, <<")">>, <<"#">>, <<"a">>, <<" ">>,
      <<"&", "#", "x", "2", "7", ";">> }

\* the parser trims the text of a heading
Bodies ==
    { body \in SeqsUpTo(Atoms, MaxBody) :
        body # <<>> => (Head(body) # <<" ">> /\ body[Len(body)] # <<" ">>) }

\* a level-1 heading with the text under test, followed by a level-2 heading
TitledDocuments ==
    { << [type |-> "heading", level |-> 1, text |-> concat(body), atoms |-> body],
         [type |-> "heading", level |-> 2, text |-> <<"B">>, atoms |-> << <<"B">> >>] >> :
      body \in Bodies }

InitTitle ==
    /\ SplitEntry(TitledDocuments, {MaxChunk})
    /\ AgentEntry({{}})
    /\ PipelineEntry({<<>>})

NextTitle ==
    \/ FoldHeading
    \/ StartCollapse
    \/ CollapseNest
    \/ CollapseReturn
    \/ SplitCall
    \/ ChunkRecurse
    \/ ChunkReturn
    \/ SplitExtend
    \/ SplitReturn

SpecTitle == InitTitle /\ [][NextTitle]_vars

\* --- what the title of the first heading should be, piece by piece
Body == content_ast[1].atoms

\* the section of the first heading, once the fold has pushed it
Titled == {sec \in Forest(sections) : sec.id = 1}

\* a piece with its "#" removed and its character reference replaced
Plain(atom) ==
    IF atom = <<"#">> THEN <<>>
    ELSE IF \E e \in Entities : e.ref = atom
         THEN <<(CHOOSE e \in Entities : e.ref = atom).char>>
         ELSE atom

PlainText(atoms) == strip(concat([k \in 1..Len(atoms) |-> Plain(atoms[k])]))

RECURSIVE DropBlanks(_)
DropBlanks(atoms) ==
    IF atoms # <<>> /\ Head(atoms) = <<" ">> THEN DropBlanks(Tail(atoms)) ELSE atoms

\* the heading line "# " + text: after the markers and whitespace it starts
\* with "[", and it ends with ")" once trailing whitespace is trimmed
LinkShaped(atoms) ==
    /\ DropBlanks(atoms) # <<>>
    /\ Head(DropBlanks(atoms)) = <<"[">>
    /\ \E m \in 1..Len(atoms) :
          /\ atoms[m] = <<")">>
          /\ \A n \in (m + 1)..Len(atoms) : atoms[n] = <<" ">>

\* first position from which on the pieces of pat follow, 0 when there is none
FirstAt(atoms, from, pat) ==
    LET hits == {k \in from..(Len(atoms) - Len(pat) + 1) :
                    \A j \in 1..Len(pat) : atoms[k + j - 1] = pat[j]}
    IN  IF hits = {} THEN 0 ELSE SetMin(hits)

\* the first "[text](url)" occurrence of the line
LinkP(atoms) == FirstAt(atoms, 1, << <<"[">> >>)
LinkQ(atoms) ==
    IF LinkP(atoms) = 0 THEN 0
    ELSE FirstAt(atoms, LinkP(atoms) + 1, << <<"]">>, <<"(">> >>)
LinkR(atoms) ==
    IF LinkQ(atoms) = 0 THEN 0
    ELSE FirstAt(atoms, LinkQ(atoms) + 2, << <<")">> >>)
HasLink(atoms) == LinkR(atoms) # 0
LinkText(atoms) == SubSeq(atoms, LinkP(atoms) + 1, LinkQ(atoms) - 1)
LinkUrl(atoms) == concat(SubSeq(atoms, LinkQ(atoms) + 2, LinkR(atoms) - 1))

Contains(s, pat) ==
    \E k \in 1..(Len(s) - Len(pat) + 1) : starts_at(s, k, pat)

\* every chunk of the level-2 section starts with the heading line made of
\* the given title of its parent and its own title
PrefixedBy(title) ==
    \A i \in 1..Len(chunks) :
        chunks[i].sec = 2 =>
            starts_at(chunks[i].content, 1,
                      <<"#", " ">> \o JoinNonEmpty(<<title, <<"B">>>>, <<" ", ">", " ">>) \o <<NL>>)

\* C16 as the specification states it: for a heading line of the link shape
\* the title is the text and title_url the url of the first "[text](url)"
\* occurrence, the title has no "#" and no link syntax, and the descendants'
\* heading prefixes carry that title.
C16_LinkTitleIsLinkText ==
    \A sec \in Titled :
        LinkShaped(Body) =>
            /\ HasLink(Body)
            /\ sec.title = concat(LinkText(Body))
            /\ sec.title_url = Some(LinkUrl(Body))
            /\ ~Contains(sec.title, <<"#">>)
            /\ ~Contains(sec.title, <<"]", "(">>)
            /\ Done => PrefixedBy(concat(LinkText(Body)))

\* C16, amended: for a heading line of the link shape that holds a
\* "[text](url)" occurrence, the title is the text of the first occurrence
\* with its character references unescaped, its "#" removed and its ends
\* trimmed, and title_url is the url of that occurrence; for a line of the
\* link shape without an occurrence, the title is the whole line treated the
\* same way and title_url is None.  The title never holds a "#", and it is
\* the title the descendants' heading prefixes carry.
C16_LinkTitleSanitized ==
    \A sec \in Titled :
        LinkShaped(Body) =>
            /\ HasLink(Body) =>
                  /\ sec.title = PlainText(LinkText(Body))
                  /\ sec.title_url = Some(LinkUrl(Body))
            /\ ~HasLink(Body) =>
                  /\ sec.title = PlainText(Body)
                  /\ sec.title_url = None
            /\ ~Contains(sec.title, <<"#">>)
            /\ Done => PrefixedBy(IF HasLink(Body) THEN PlainText(LinkText(Body))
                                                   ELSE PlainText(Body))

\* split() has returned for a link heading whose text needed cleaning and
\* whose title reached the chunk of the level-2 section
C16_Witness ==
    /\ Done
    /\ LinkShaped(Body)
    /\ HasLink(Body)
    /\ \E sec \in Titled :
          /\ sec.title # <<>>
          /\ sec.title # concat(LinkText(Body))
    /\ \E i \in 1..Len(chunks) : chunks[i].sec = 2

\* C17: for a heading line that is not of the link shape, title_url is None
\* and the title is the line with every "#" removed (those of the text
\* too), its character references unescaped and its ends trimmed.
C17_PlainTitle ==
    \A sec \in Titled :
        ~LinkShaped(Body) =>
            /\ sec.title = PlainText(Body)
            /\ sec.title_url = None

\* a plain heading with a "#" and a character reference in its text
C17_Witness ==
    /\ ~LinkShaped(Body)
    /\ \E k \in 1..Len(Body) : Body[k] = <<"#">>
    /\ \E k \in 1..Len(Body) : \E e \in Entities : Body[k] = e.ref
    /\ \E sec \in Titled : sec.title # <<>>

\* ---------------------------------------------------------------- agent and store
MaxRows == 3     \* texts the store is given between two resets
MaxTexts == 2    \* texts of one add_texts call
MaxCalls == 3    \* index() calls on one agent
TOP_K == 3       \* in_memory.py line 23

\* contents of chunks: the empty string and two non-empty ones
Texts == { <<>>, <<"x">>, <<"y">> }

\* The PDF files a directory may hold.  contents stands for the chunk
\* contents that converter.convert and chunker.split yield for the file
\* (rag_agent.py lines 64-68).
Pdfs ==
    { [name |-> "a.pdf", contents |-> << <<"x">> >>],
      [name |-> "b.pdf", contents |-> << <<>>, <<"y">> >>] }

\* pdf_loader.py lines 11-16: for every file LoadedPDF(name=..., raw_bytes=...)
\* is built, without the field path that the dataclass requires
\* (loader/types.py lines 10-12): the constructor raises TypeError at the
\* first file, so load() returns a list for an empty directory only.
load(dir) ==
    IF dir = {} THEN [raised |-> "", docs |-> <<>>]
    ELSE [raised |-> "TypeError", docs |-> <<>>]

\* the agent and its store as one record
AgentState ==
    [docs |-> docs, table |-> table, texts |-> texts, raised |-> raised,
     converted |-> converted, added |-> added]

\* in_memory.py lines 59-67.  table.add is given the non-empty texts; with
\* _table = None the call raises AttributeError, which the backoff wrapper
\* (RuntimeError only, lines 27-30) does not retry.  The table itself is
\* taken to accept every batch.
add_texts(st, ts) ==
    LET batch == SelectSeq(ts, LAMBDA t : t # <<>>)
    IN  IF batch = <<>> THEN [st EXCEPT !.raised = ""]
        ELSE IF st.table = None
        THEN [st EXCEPT !.raised = "AttributeError", !.added = st.added \o ts]
        ELSE [st EXCEPT !.raised = "",
                        !.table = Some(st.table[1] \o batch),
                        !.texts = st.texts \o ts,
                        !.added = st.added \o ts]

\* rag_agent.py lines 60-76: the loop of index() over the loaded documents
RECURSIVE IndexDocs(_, _)
IndexDocs(loaded, st) ==
    IF loaded = <<>> THEN st
    ELSE LET doc == Head(loaded)
         IN  IF doc.name \in DOMAIN st.docs
             THEN IndexDocs(Tail(loaded), st)
             ELSE LET stored == add_texts([st EXCEPT !.converted = Append(st.converted, doc.name)],
                                          doc.contents)
                  IN  IF stored.raised # "" THEN stored
                      ELSE IndexDocs(Tail(loaded),
                                     [stored EXCEPT !.docs = stored.docs @@ (doc.name :> doc.contents)])

\* the agent and store variables take the fields of st
Becomes(st) ==
    /\ docs' = st.docs
    /\ table' = st.table
    /\ texts' = st.texts
    /\ raised' = st.raised
    /\ converted' = st.converted
    /\ added' = st.added

\* RAGAgent.index()
AgentIndex ==
    /\ index_calls < MaxCalls
    /\ index_calls' = index_calls + 1
    /\ LET loaded == load(directory)
       IN  IF loaded.raised # ""
           THEN Becomes([AgentState EXCEPT !.raised = loaded.raised])
           ELSE Becomes(IndexDocs(loaded.docs, [AgentState EXCEPT !.raised = ""]))
    /\ found' = None
    /\ UNCHANGED directory
    /\ UNCHANGED <<chunker_vars, pipe_vars>>

\* InMemoryVectorStore.add_texts(texts), called on the agent's store
StoreAddTexts ==
    /\ \E ts \in SeqsUpTo(Texts, MaxTexts) :
          /\ Len(added) + Len(ts) <= MaxRows
          /\ Becomes(add_texts(AgentState, ts))
    /\ found' = None
    /\ UNCHANGED <<directory, index_calls>>
    /\ UNCHANGED <<chunker_vars, pipe_vars>>

\* InMemoryVectorStore.reset() (lines 84-88)
StoreReset ==
    /\ table' = None
    /\ texts' = <<>>
    /\ added' = <<>>
    /\ raised' = ""
    /\ found' = None
    /\ UNCHANGED <<directory, docs, converted, index_calls>>
    /\ UNCHANGED <<chunker_vars, pipe_vars>>

\* what the hybrid query may return: up to k rows of the table, each once
Hits(rows, k) ==
    UNION { { [j \in 1..n |-> rows[f[j]]] :
                f \in {g \in [1..n -> 1..Len(rows)] :
                         \A a, b \in 1..n : a # b => g[a] # g[b]} } :
            n \in 0..Min(k, Len(rows)) }

\* InMemoryVectorStore.search(query, k) (lines 69-82)
StoreSearch ==
    /\ IF table = None
       THEN found' = Some(<<>>)
       ELSE found' \in {Some(hits) : hits \in Hits(table[1], TOP_K)}
    /\ raised' = ""
    /\ UNCHANGED <<directory, docs, table, texts, converted, index_calls, added>>
    /\ UNCHANGED <<chunker_vars, pipe_vars>>

InitAgent ==
    /\ SplitEntry({<<>>}, {MaxChunk})
    /\ AgentEntry(SUBSET Pdfs)
    /\ PipelineEntry({<<>>})

NextAgent ==
    \/ AgentIndex
    \/ StoreAddTexts
    \/ StoreReset
    \/ StoreSearch

SpecAgent == InitAgent /\ [][NextAgent]_vars

C19_ResetSupport ==
    /\ raised # "AttributeError"
    /\ texts = added
    /\ table # None => table[1] = SelectSeq(added, LAMBDA t : t # <<>>)
    /\ (table = None /\ found # None) => found = Some(<<>>)

\* ---------------------------------------------------------------- more on the builder
\* the section with the given id is a sub-section of the section parent
ChildOf(id, parent) ==
    \E P \in Forest(sections) :
        /\ P.id = parent
        /\ \E k \in 1..Len(P.sub_sections) : P.sub_sections[k].id = id

\* C21: headings of the same level are siblings: for levels (1, 2, 2) the
\* builder returns one root whose sub_sections are the two level-2 sections
\* in document order, for levels (2, 2) it returns two roots, and two
\* consecutive headings of equal level are never parent and child.
C21_SameLevelSiblings ==
    Built =>
        /\ Levels(content_ast) = <<1, 2, 2>> =>
              /\ Len(sections) = 1
              /\ sections[1].id = 1
              /\ Len(sections[1].sub_sections) = 2
              /\ sections[1].sub_sections[1].id = 2
              /\ sections[1].sub_sections[1].sub_sections = <<>>
              /\ sections[1].sub_sections[2].id = 3
              /\ sections[1].sub_sections[2].sub_sections = <<>>
        /\ Levels(content_ast) = <<2, 2>> =>
              /\ Len(sections) = 2
              /\ sections[1].id = 1
              /\ sections[1].sub_sections = <<>>
              /\ sections[2].id = 2
              /\ sections[2].sub_sections = <<>>
        /\ \A n \in 1..(Len(content_ast) - 1) :
              content_ast[n].level = content_ast[n + 1].level =>
                  /\ ~ChildOf(n + 1, n)
                  /\ ~ChildOf(n, n + 1)

C21_Witness ==
    /\ Built
    /\ Levels(content_ast) = <<1, 2, 2>>
    /\ Len(sections) = 1
    /\ Len(sections[1].sub_sections) = 2

\* the collapse loop is sequential code: once entered, its next iteration
\* or its exit is always taken
SpecBuilderFair ==
    /\ InitBuilder
    /\ [][NextBuilder]_vars
    /\ WF_vars(CollapseNest)
    /\ WF_vars(CollapseLeft)
    /\ WF_vars(CollapseReturn)

\* the measure that bounds the loop: quadratic in the number of sections
Rank == Len(sections) * (Len(content_ast) + 1) + index

\* one iteration of the collapse loop
CollapseIteration ==
    (pc = "collapse" /\ pc' = "collapse") =>
        /\ \/ (sections' = sections /\ index' = index - 1)
           \/ (Len(sections') = Len(sections) - 1 /\ index' = Len(sections') - 1)
        /\ Rank' < Rank
        /\ Rank' >= 0

\* C23: the collapse pass terminates for every flat list: every iteration
\* either moves the index one step left or removes one section and resets
\* the index to the new last position, a measure of at most
\* n * (n + 1) decreases with every iteration, and the loop is left.
C23_CollapseTerminates ==
    /\ [][CollapseIteration]_vars
    /\ (pc = "collapse") ~> Built

\* the loop has ended after it both nested sections and moved left
C23_Witness ==
    /\ Built
    /\ Len(sections) >= 2
    /\ Len(sections) < Len(content_ast)

\* C26: in the list of roots the builder returns no section has a level
\* greater than the section just before it, and the first section pushed is
\* a root.
C26_CollapseFixpoint ==
    Built =>
        /\ \A k \in 1..(Len(sections) - 1) : sections[k + 1].level <= sections[k].level
        /\ sections # <<>> => sections[1].id = 1

\* several roots, one of which took a sub-section from between them
C26_Witness ==
    /\ Built
    /\ Len(sections) >= 2
    /\ \E k \in 1..Len(sections) : sections[k].sub_sections # <<>>
    /\ sections[1].id = 1

\* ---------------------------------------------------------------- longer documents
\* Documents of up to MaxTokens + 1 tokens over fewer kinds of token: one
\* heading text per level and the two paragraphs.
LightTokens ==
    {t \in HeadingTokens : t.text = <<"B">>} \cup {t \in ContentTokens : t.type = "paragraph"}

LightDocuments == SeqsUpTo(LightTokens, MaxTokens + 1)

InitLight ==
    /\ SplitEntry(LightDocuments, {1, MaxChunk})
    /\ AgentEntry({{}})
    /\ PipelineEntry({<<>>})

SpecLight == InitLight /\ [][Next]_vars

\* the sections of a forest in pre-order, each without its sub-sections
RECURSIVE Preorder(_)
Preorder(secs) ==
    IF secs = <<>> THEN <<>>
    ELSE <<[Head(secs) EXCEPT !.sub_sections = <<>>]>>
            \o Preorder(Head(secs).sub_sections)
            \o Preorder(Tail(secs))

\* C25: the pre-order traversal of the forest the collapse pass returns
\* enumerates exactly the sections of the flat list, each once, in the order
\* they were pushed; and the chunks split() returns are grouped by section,
\* the groups in that order.
C25_CollapseKeepsOrder ==
    /\ pc \in {"chunk", "done"} => Preorder(sections) = Folded(Len(content_ast))
    /\ Done =>
          /\ \A i \in 1..(Len(chunks) - 1) : chunks[i].sec <= chunks[i + 1].sec
          /\ {chunks[i].sec : i \in 1..Len(chunks)} = 1..Len(Folded(Len(content_ast)))

\* split() has returned for a forest of at least four sections, with a
\* section nested two levels deep and more than one root
C25_Witness ==
    /\ Done
    /\ Len(Preorder(sections)) >= 4
    /\ Len(sections) >= 2
    /\ \E P \in Forest(sections) : \E k \in 1..Len(P.sub_sections) :
          P.sub_sections[k].sub_sections # <<>>

\* the _split_text calls logged for the section with the given id
SplitLog(id) == SelectSeq(split_calls, LAMBDA c : c.sec = id)

\* C24: when split() has returned with max_chunk_size = N >= 1, every
\* chunk's original_content has at most N characters: a section that was
\* not split has a content of at most N characters, which is its chunk's
\* original_content, and the original_content of the i-th chunk of a split
\* section is the i-th piece the splitter returned for it.
C24_PieceWithinMaxChunkSize ==
    (Done /\ max_chunk_size >= 1) =>
        \A i \in 1..Len(chunks) :
            /\ Len(chunks[i].original_content) <= max_chunk_size
            /\ IF SplitLog(chunks[i].sec) = <<>>
               THEN /\ chunks[i].original_content = SectionById(chunks[i].sec).content
                    /\ PartIndex(i) = 1
               ELSE /\ Len(SplitLog(chunks[i].sec)) = 1
                    /\ PartIndex(i) <= Len(SplitLog(chunks[i].sec)[1].splits)
                    /\ chunks[i].original_content =
                          SplitLog(chunks[i].sec)[1].splits[PartIndex(i)]

\* a returned list with the pieces of a split section and the whole content
\* of another section
C24_Witness ==
    /\ Done
    /\ \E i \in 1..Len(chunks) :
          /\ SplitLog(chunks[i].sec) # <<>>
          /\ PartIndex(i) >= 2
    /\ \E i \in 1..Len(chunks) :
          /\ SplitLog(chunks[i].sec) = <<>>
          /\ chunks[i].original_content # <<>>

\* content tokens precede the first heading, and that heading has level >= 2
OrphanThenDeeper ==
    /\ HasImplicitRoot
    /\ \E h \in 1..Len(content_ast) :
          /\ content_ast[h].type = "heading"
          /\ HeadingsBefore(h) = {}
          /\ content_ast[h].level >= 2

\* C27: when content precedes the first heading and that heading has level
\* >= 2, its section is a sub-section of the implicit untitled level-1 root;
\* every chunk of that root's subtree has root_title = "" and its content
\* starts with the line for the " > "-join of the non-empty titles of the
\* section's ancestors and itself.
C27_HeadingUnderOrphanRoot ==
    (Done /\ OrphanThenDeeper) =>
        /\ sections[1].id = 1
        /\ sections[1].title = <<>>
        /\ sections[1].level = 1
        /\ ChildOf(2, 1)
        /\ \A i \in 1..Len(chunks) :
              chunks[i].sec \in Ids(Subtree(sections[1])) =>
                  /\ chunks[i].root_title = <<>>
                  /\ chunks[i].content =
                        HeadingLine(i, JoinNonEmpty(Tail(Titles(RootPath(chunks[i].sec))),
                                                    <<" ", ">", " ">>))
                            \o chunks[i].original_content

\* orphan content, then "## B" whose chunk starts with "# B", then a deeper
\* heading whose chunk starts with "# B > B"
C27_Witness ==
    /\ Done
    /\ OrphanThenDeeper
    /\ \E i \in 1..Len(chunks) :
          /\ chunks[i].sec = 2
          /\ chunks[i].root_title = <<>>
          /\ starts_at(chunks[i].content, 1, <<"#", " ", "B", NL>>)
    /\ \E i \in 1..Len(chunks) :
          starts_at(chunks[i].content, 1, <<"#", " ", "B", " ", ">", " ", "B", NL>>)

\* --- the chunks of one top-level section, from its subtree alone
\* the sections of a subtree in pre-order, sub-sections kept
RECURSIVE Walk(_)
Walk(secs) ==
    IF secs = <<>> THEN <<>>
    ELSE <<Head(secs)>> \o Walk(Head(secs).sub_sections) \o Walk(Tail(secs))

\* the line "# h\n" or "# h Part n\n", nothing for an empty h
TitleLine(h, part) ==
    IF h = <<>> THEN <<>>
    ELSE <<"#", " ">> \o h \o (IF part = 0 THEN <<>> ELSE PartLabel \o str(part)) \o <<NL>>

\* the chunks of section D of the subtree of the top-level section R, given
\* the pieces the splitter returned for D (none when D was not split)
SectionChunksIn(R, D) ==
    LET h == JoinNonEmpty(Titles(PathIn(R, D.id)), <<" ", ">", " ">>)
        log == SplitLog(D.id)
    IN  IF log = <<>>
        THEN <<Chunk(TitleLine(h, 0) \o D.content, D.content, D.title, R.title, D.id)>>
        ELSE [i \in 1..Len(log[1].splits) |->
                Chunk(TitleLine(h, i) \o log[1].splits[i],
                      log[1].splits[i],
                      IF D.title = <<>> THEN <<>> ELSE D.title \o PartLabel \o str(i),
                      R.title,
                      D.id)]

RootChunks(R) ==
    LET walk == Walk(<<R>>)
    IN  concat([k \in 1..Len(walk) |-> SectionChunksIn(R, walk[k])])

\* C22: the chunks produced for a top-level section (contents, headings,
\* original_title, root_title) are a function of that section's subtree,
\* max_chunk_size and the splitter's pieces for its sections, and of no other
\* top-level section; the list split() returns is the concatenation of the
\* per-root lists in root order, in whatever order they are computed.
C22_RootsIndependent ==
    /\ pc \in {"chunk", "done"} =>
          chunks = concat([r \in 1..(root - 1) |-> RootChunks(sections[r])])
    /\ Done => root = Len(sections) + 1

\* two top-level sections, the first one titled and with a sub-section, and
\* a split section among them
C22_Witness ==
    /\ Done
    /\ Len(sections) >= 2
    /\ sections[1].title # <<>>
    /\ sections[1].sub_sections # <<>>
    /\ split_calls # <<>>

\* ------------------------------------------------- convert_pdf_pipelined
\* src/src/converter/basic_surya_pipeline.py: a layout thread and an OpenAI
\* thread joined by a queue; the blocks of a page run on an executor.

MaxPages == 2     \* pages of the PDF
MaxBlocks == 2    \* layout boxes of the PDF, over all its pages

\* the grave accent (U+0060), which a TLA+ string cannot hold, as an atom
Tick == "GRAVE"
Ticks == <<Tick, Tick, Tick>>
StartTag == Ticks \o <<"m", "a", "r", "k", "d", "o", "w", "n">>
SplitTag == Ticks \o <<NL, "m", "a", "r", "k", "d", "o", "w", "n">>

\* str.find(sub, start): 0-based index of the first occurrence at or after
\* start, -1 when there is none
find(text, sub, start) ==
    LET hits == {k \in start..(Len(text) - Len(sub)) : starts_at(text, k + 1, sub)}
    IN  IF hits = {} THEN -1 ELSE SetMin(hits)

\* text[a:b], 0-based
slice(text, a, b) == SubSeq(text, a + 1, b)

\* src/src/utils.py extract_markdown_content
extract_markdown_content(text) ==
    LET tagged == find(text, StartTag, 0)
        start == IF tagged # -1 THEN tagged ELSE find(text, SplitTag, 0)
    IN  IF start # -1
        THEN LET from == start + Len(StartTag)
                 end == find(text, Ticks, from)
             IN  IF end # -1 THEN strip(slice(text, from, end))
                 ELSE strip(slice(text, from, Len(text)))
        ELSE strip(text)

\* str.join
RECURSIVE join(_, _)
join(sep, parts) ==
    IF parts = <<>> THEN <<>>
    ELSE IF Len(parts) = 1 THEN parts[1]
    ELSE parts[1] \o sep \o join(sep, Tail(parts))

\* what the chat completion does for a block image: it raises, or returns a
\* message whose content is None, a fenced markdown text or a plain text
Replies ==
    { [raises |-> TRUE, content |-> None],
      [raises |-> FALSE, content |-> None],
      [raises |-> FALSE, content |-> Some(StartTag \o <<NL, "a", NL>> \o Ticks)],
      [raises |-> FALSE, content |-> Some(<<" ", "b">>)] }

Positions == {1, 2}

\* surya LayoutBox: its reading-order position, and the reply its image gets
LayoutBoxes == [position : Positions, reply : Replies]

\* the pages of n pages that hold the boxes bs, box k on page f[k]
PagesOf(bs, n, f) ==
    [p \in 1..n |->
        LET on == {k \in 1..Len(bs) : f[k] = p}
        IN  [j \in 1..Cardinality(on) |-> bs[SetMin(on) + j - 1]]]

\* PDFs of at most MaxPages pages with at most MaxBlocks boxes in all
PdfDocs ==
    UNION { { PagesOf(bs, n, f) :
                f \in {g \in [1..Len(bs) -> 1..n] :
                          \A k \in 1..(Len(bs) - 1) : g[k] <= g[k + 1]} } :
            bs \in SeqsUpTo(LayoutBoxes, MaxBlocks), n \in 0..MaxPages }

\* mutant: the blocks are left in the order the layout returned them
sorted_by_position_Unsorted(bs) == bs

\* line 197: sorted(blocks, key=lambda x: x.position), a stable sort
RECURSIVE sorted_by_position(_)
sorted_by_position(bs) ==
    IF bs = <<>> THEN <<>>
    ELSE LET n == Len(bs)
             s == sorted_by_position(SubSeq(bs, 1, n - 1))
             k == Cardinality({i \in 1..Len(s) : s[i].position <= bs[n].position})
         IN  SubSeq(s, 1, k) \o <<bs[n]>> \o SubSeq(s, k + 1, Len(s))

\* lines 227-248, per reply: Some(the text process_block returns), or None
\* when the request raises
BlockOutcome ==
    [reply \in Replies |->
        IF reply.raises THEN None
        ELSE LET block_text == reply.content
             IN  IF block_text # None /\ block_text[1] # <<>>
                 THEN Some(extract_markdown_content(block_text[1]))
                 ELSE Some(<<>>)]

\* lines 205-248: process_block returns Some(text), or None when it raises
process_block(block) == BlockOutcome[block.reply]

\* mutant: a new item goes to the head of the queue
put_Front(q, x) == <<x>> \o q

\* queue.Queue.put on an unbounded FIFO queue
put(q, x) == Append(q, x)

\* d[k] = v on a dict
setitem(d, k, v) == [x \in DOMAIN d \cup {k} |-> IF x = k THEN v ELSE d[x]]

\* lines 283-287: both threads are started
PipeStart ==
    /\ main_pc = "start"
    /\ main_pc' = "join_layout"
    /\ layout_pc' = "loop"
    /\ openai_pc' = "get"
    /\ UNCHANGED <<pdf_doc, page_num, layout_queue, item, blocks, block_texts,
                   future_to_block, page_results, markdown, enqueued, stores, completed>>
    /\ UNCHANGED <<chunker_vars, agent_vars>>

\* lines 163-179: one iteration of the layout loop
LayoutPage ==
    /\ layout_pc = "loop"
    /\ page_num < Len(pdf_doc)
    /\ LET layout_item == Some([page_num |-> page_num, bboxes |-> pdf_doc[page_num + 1]])
       IN  /\ layout_queue' = put(layout_queue, layout_item)
           /\ enqueued' = Append(enqueued, layout_item)
    /\ page_num' = page_num + 1
    /\ UNCHANGED <<pdf_doc, main_pc, layout_pc, openai_pc, item, blocks, block_texts,
                   future_to_block, page_results, markdown, stores, completed>>
    /\ UNCHANGED <<chunker_vars, agent_vars>>

\* lines 164-172: reading the page or the layout predictor raises; the
\* exception ends the thread
LayoutRaise ==
    /\ layout_pc = "loop"
    /\ page_num < Len(pdf_doc)
    /\ layout_pc' = "raised"
    /\ UNCHANGED <<pdf_doc, main_pc, openai_pc, page_num, layout_queue, item, blocks,
                   block_texts, future_to_block, page_results, markdown, enqueued, stores,
                   completed>>
    /\ UNCHANGED <<chunker_vars, agent_vars>>

\* lines 181-183: the completion signal, after the loop
LayoutSignal ==
    /\ layout_pc = "loop"
    /\ page_num = Len(pdf_doc)
    /\ layout_queue' = put(layout_queue, None)
    /\ enqueued' = Append(enqueued, None)
    /\ layout_pc' = "done"
    /\ UNCHANGED <<pdf_doc, main_pc, openai_pc, page_num, item, blocks, block_texts,
                   future_to_block, page_results, markdown, stores, completed>>
    /\ UNCHANGED <<chunker_vars, agent_vars>>

\* lines 189-260: layout_queue.get() blocks while the queue is empty; None
\* ends the worker, another item is unpacked, its blocks sorted and one
\* future per block submitted
OpenaiGet ==
    /\ openai_pc = "get"
    /\ layout_queue # <<>>
    /\ layout_queue' = Tail(layout_queue)
    /\ IF Head(layout_queue) = None
       THEN /\ openai_pc' = "done"
            /\ UNCHANGED <<item, blocks, block_texts, future_to_block, completed>>
       ELSE /\ openai_pc' = "blocks"
            /\ item' = Head(layout_queue)
            /\ blocks' = sorted_by_position(Head(layout_queue)[1].bboxes)
            /\ block_texts' = [k \in 1..Len(Head(layout_queue)[1].bboxes) |-> <<>>]
            /\ future_to_block' = 0..(Len(Head(layout_queue)[1].bboxes) - 1)
            /\ completed' = <<>>
    /\ UNCHANGED <<pdf_doc, main_pc, layout_pc, page_num, page_results, markdown,
                   enqueued, stores>>
    /\ UNCHANGED <<chunker_vars, agent_vars>>

\* lines 263-272: a future completes and as_completed yields it; its text, or
\* "" when it raised, goes to the slot of its block index
BlockDone(block_idx) ==
    /\ openai_pc = "blocks"
    /\ block_idx \in future_to_block
    /\ LET outcome == process_block(blocks[block_idx + 1])
       IN  block_texts' = [block_texts EXCEPT
                              ![block_idx + 1] = IF outcome = None THEN <<>> ELSE outcome[1]]
    /\ future_to_block' = future_to_block \ {block_idx}
    /\ completed' = Append(completed, block_idx)
    /\ UNCHANGED <<pdf_doc, main_pc, layout_pc, openai_pc, page_num, layout_queue, item,
                   blocks, page_results, markdown, enqueued, stores>>
    /\ UNCHANGED <<chunker_vars, agent_vars>>

BlocksDone == \E block_idx \in future_to_block : BlockDone(block_idx)

\* lines 274-280: all futures are done, the page text is stored
OpenaiStore ==
    /\ openai_pc = "blocks"
    /\ future_to_block = {}
    /\ page_results' = setitem(page_results, item[1].page_num, join(<<NL>>, block_texts))
    /\ stores' = Append(stores, item[1].page_num)
    /\ openai_pc' = "get"
    /\ item' = None
    /\ blocks' = <<>>
    /\ block_texts' = <<>>
    /\ UNCHANGED <<pdf_doc, main_pc, layout_pc, page_num, layout_queue, future_to_block,
                   markdown, enqueued, completed>>
    /\ UNCHANGED <<chunker_vars, agent_vars>>

\* line 290: layout_thread.join() returns once the thread has ended, by
\* returning or by an exception
JoinLayout ==
    /\ main_pc = "join_layout"
    /\ layout_pc \in {"done", "raised"}
    /\ main_pc' = "join_openai"
    /\ UNCHANGED <<pdf_doc, layout_pc, openai_pc, page_num, layout_queue, item, blocks,
                   block_texts, future_to_block, page_results, markdown, enqueued, stores,
                   completed>>
    /\ UNCHANGED <<chunker_vars, agent_vars>>

\* lines 291-301: openai_thread.join() returns, the page texts are combined
JoinOpenai ==
    /\ main_pc = "join_openai"
    /\ openai_pc = "done"
    /\ LET page_texts == [p \in 1..Len(pdf_doc) |->
                             IF (p - 1) \in DOMAIN page_results
                             THEN page_results[p - 1] ELSE <<>>]
       IN  markdown' = Some(join(<<NL, NL>>, page_texts))
    /\ main_pc' = "returned"
    /\ UNCHANGED <<pdf_doc, layout_pc, openai_pc, page_num, layout_queue, item, blocks,
                   block_texts, future_to_block, page_results, enqueued, stores, completed>>
    /\ UNCHANGED <<chunker_vars, agent_vars>>

InitPipeline ==
    /\ SplitEntry({<<>>}, {MaxChunk})
    /\ AgentEntry({{}})
    /\ PipelineEntry(PdfDocs)

NextPipeline ==
    \/ PipeStart
    \/ LayoutPage
    \/ LayoutRaise
    \/ LayoutSignal
    \/ OpenaiGet
    \/ BlocksDone
    \/ OpenaiStore
    \/ JoinLayout
    \/ JoinOpenai

\* every thread that can take a step takes one: the main thread, the layout
\* thread (its exception is possible, never required), the OpenAI thread
SpecPipeline ==
    /\ InitPipeline
    /\ [][NextPipeline]_vars
    /\ WF_vars(PipeStart) /\ WF_vars(JoinLayout) /\ WF_vars(JoinOpenai)
    /\ WF_vars(LayoutPage) /\ WF_vars(LayoutSignal)
    /\ WF_vars(OpenaiGet) /\ WF_vars(BlocksDone) /\ WF_vars(OpenaiStore)

Returned == main_pc = "returned"


\* the place of box i of a page in reading order: after every box of a lower
\* position, and after the earlier boxes of its own position
Place(bs, i) ==
    1 + Cardinality({j \in 1..Len(bs) :
                        \/ bs[j].position < bs[i].position
                        \/ bs[j].position = bs[i].position /\ j < i})

\* the text a box contributes: "" when its request raised or had no content
BoxText(b) == IF process_block(b) = None THEN <<>> ELSE process_block(b)[1]

\* the texts of the boxes of a page in reading order, one per line
PageText(bs) ==
    join(<<NL>>, [k \in 1..Len(bs) |->
                     BoxText(bs[CHOOSE i \in 1..Len(bs) : Place(bs, i) = k])])

\* C28: whatever the interleaving of the layout thread, the OpenAI thread and
\* the block futures, every stored page text lists the block texts in sorted
\* block-position order, and the returned markdown joins the page texts in
\* ascending page-number order.
C28_OrderIndependent ==
    /\ \A p \in DOMAIN page_results : page_results[p] = PageText(pdf_doc[p + 1])
    /\ Returned =>
          markdown = Some(join(<<NL, NL>>,
                               [p \in 1..Len(pdf_doc) |-> PageText(pdf_doc[p])]))

\* the function has returned for a PDF whose last page has two boxes with
\* different texts, laid out against their positions, whose futures
\* completed in the reverse of their block order
C28_Witness ==
    /\ Returned
    /\ pdf_doc # <<>>
    /\ LET bs == pdf_doc[Len(pdf_doc)]
       IN  /\ Len(bs) = 2
           /\ bs[1].position > bs[2].position
           /\ BoxText(bs[1]) # BoxText(bs[2])
    /\ completed = <<1, 0>>

IsPrefix(s, t) == Len(s) <= Len(t) /\ \A k \in 1..Len(s) : s[k] = t[k]

\* one item per page in page order, then the completion signal
Handoff ==
    [p \in 1..Len(pdf_doc) |-> Some([page_num |-> p - 1, bboxes |-> pdf_doc[p]])]
        \o <<None>>

PageNumbers == [p \in 1..Len(pdf_doc) |-> p - 1]

\* C29: the layout worker enqueues one item per page in page order and the
\* completion signal only after the last page; the OpenAI worker stores a
\* result for every page exactly once before it sees the signal; when no
\* worker raises both threads end, the joins return and page_results has an
\* entry for every page number.
C29_Handoff ==
    /\ [](/\ IsPrefix(enqueued, Handoff)
          /\ IsPrefix(stores, PageNumbers)
          /\ openai_pc = "done" => stores = PageNumbers
          /\ Returned => /\ layout_pc = "done"
                         /\ openai_pc = "done"
                         /\ DOMAIN page_results = 0..(Len(pdf_doc) - 1))
    /\ <>(layout_pc = "raised" \/ Returned)

\* the function has returned for a PDF of at least two pages, all stored
C29_Witness ==
    /\ Returned
    /\ Len(pdf_doc) >= 2
    /\ stores = PageNumbers
    /\ layout_pc = "done"

\* C30: in every execution, the one where the layout worker raises on some
\* page included, both joins return and the function returns.
C30_NeverBlocksForever == <>Returned

====
